---- MODULE Spec2Model ----
(***************************************************************************)
(* Podcast preview cards and the detail dialog.                            *)
(*                                                                         *)
(*   - createModal.js   : the dialog controller (open / close / Escape,     *)
(*                        focus capture and restore)                        *)
(*   - PodcastPreview.js: the <podcast-preview> element (attributes, the    *)
(*                        .data property, .value, podcast-select)           *)
(*   - createGrid.js    : the grid that replaces the cards of the document  *)
(*   - DateUtils.js     : the "Updated ..." label                           *)
(*                                                                         *)
(* A string is a sequence of symbols.  A symbol is a digit, a comma, a      *)
(* blank, a hyphen or a word (a run of letters taken as one symbol), so     *)
(* splitting on commas, trimming blanks and parsing digits are computed on  *)
(* the symbols as the code computes them on characters.                     *)
(***************************************************************************)
EXTENDS Integers, Sequences, FiniteSets

(***************************************************************************)
(* Bounds of the model.                                                     *)
(***************************************************************************)
MaxCards == 2
MaxStreak == 2
MaxEdits == 1
MaxReopens == 1

(***************************************************************************)
(* JavaScript values.  Every value is a record of one shape: its type tag   *)
(* t, and the string s, the number n or the array a that the tag selects.   *)
(* "null" stands for both null and undefined (the code only uses ??, ?.,    *)
(* ||, == null on them, which do not tell them apart).                      *)
(***************************************************************************)
JNull == [t |-> "null", s |-> <<>>, n |-> 0, a |-> <<>>]

JNaN == [t |-> "nan", s |-> <<>>, n |-> 0, a |-> <<>>]

JStr(s) == [t |-> "string", s |-> s, n |-> 0, a |-> <<>>]

JNum(n) == [t |-> "number", s |-> <<>>, n |-> n, a |-> <<>>]

JArr(a) == [t |-> "array", s |-> <<>>, n |-> 0, a |-> a]

IsNullish(v) == v.t = "null"

\* typeof v === "number" (NaN is a number)
IsNumberType(v) == v.t \in {"number", "nan"}

\* ToBoolean
Truthy(v) ==
  CASE v.t = "null" -> FALSE
    [] v.t = "nan" -> FALSE
    [] v.t = "string" -> v.s # <<>>
    [] v.t = "number" -> v.n # 0
    [] OTHER -> TRUE

\* a || b
Or(a, b) == IF Truthy(a) THEN a ELSE b

\* a ?? b
Coalesce(a, b) == IF IsNullish(a) THEN b ELSE a

Digits == <<"0", "1", "2", "3", "4", "5", "6", "7", "8", "9">>

DigitVal(c) ==
  CASE c = "0" -> 0 [] c = "1" -> 1 [] c = "2" -> 2 [] c = "3" -> 3 [] c = "4" -> 4
    [] c = "5" -> 5 [] c = "6" -> 6 [] c = "7" -> 7 [] c = "8" -> 8 [] c = "9" -> 9
    [] OTHER -> -1

IsDigit(c) == DigitVal(c) >= 0

RECURSIVE NatToStr(_)
NatToStr(n) == IF n < 10 THEN <<Digits[n + 1]>>
               ELSE NatToStr(n \div 10) \o <<Digits[(n % 10) + 1]>>

\* Number.prototype.toString for an integer
IntToStr(n) == IF n < 0 THEN <<"-">> \o NatToStr(0 - n) ELSE NatToStr(n)

RECURSIVE DigitsToNat(_)
DigitsToNat(s) == IF s = <<>> THEN 0
                  ELSE 10 * DigitsToNat(SubSeq(s, 1, Len(s) - 1)) + DigitVal(s[Len(s)])

AllDigits(s) == s # <<>> /\ \A i \in 1..Len(s) : IsDigit(s[i])

RECURSIVE TrimLeft(_)
TrimLeft(s) == IF s # <<>> /\ s[1] = " " THEN TrimLeft(Tail(s)) ELSE s

RECURSIVE TrimRight(_)
TrimRight(s) == IF s # <<>> /\ s[Len(s)] = " " THEN TrimRight(SubSeq(s, 1, Len(s) - 1)) ELSE s

\* String.prototype.trim
Trim(s) == TrimRight(TrimLeft(s))

\* Number(string): blank -> 0, an optionally signed run of digits -> its
\* value, anything else (over the symbols of this model) -> NaN
StrToNumber(s) ==
  LET u == Trim(s) IN
  IF u = <<>> THEN JNum(0)
  ELSE IF AllDigits(u) THEN JNum(DigitsToNat(u))
  ELSE IF u[1] = "-" /\ AllDigits(Tail(u)) THEN JNum(0 - DigitsToNat(Tail(u)))
  ELSE JNaN

\* String(v) for a value that is not an array
ScalarToString(v) ==
  CASE v.t = "string" -> v.s
    [] v.t = "number" -> IntToStr(v.n)
    [] v.t = "nan" -> <<"NaN">>
    [] OTHER -> <<"null">>

RECURSIVE Join(_)
\* Array.prototype.join(","): a nullish element contributes the empty string
Join(a) ==
  IF a = <<>> THEN <<>>
  ELSE LET head == IF IsNullish(a[1]) THEN <<>> ELSE ScalarToString(a[1])
       IN IF Len(a) = 1 THEN head ELSE head \o <<",">> \o Join(Tail(a))

\* String(v)
JsString(v) == IF v.t = "array" THEN Join(v.a) ELSE ScalarToString(v)

\* Number(v)
ToNumber(v) ==
  CASE v.t = "null" -> JNum(0)
    [] v.t = "number" -> v
    [] v.t = "nan" -> JNaN
    [] v.t = "string" -> StrToNumber(v.s)
    [] OTHER -> StrToNumber(Join(v.a))

RECURSIVE SplitFrom(_, _, _)
\* the pieces of s[i..] between the commas, piece being the one under way
SplitFrom(s, i, piece) ==
  IF i > Len(s) THEN <<piece>>
  ELSE IF s[i] = "," THEN <<piece>> \o SplitFrom(s, i + 1, <<>>)
  ELSE SplitFrom(s, i + 1, Append(piece, s[i]))

\* String.prototype.split(",")
Split(s) == SplitFrom(s, 1, <<>>)

(***************************************************************************)
(* Collaborators.                                                           *)
(***************************************************************************)
UnknownGenre == <<"Unknown">>

\* the genre table of data.js: identifier -> display name
GenreTable == <<
  <<"Personal", " ", "Growth">>,
  <<"Investigative", " ", "Journalism">>,
  <<"History">> >>

\* GenreService.getNames(ids): one name per identifier, the placeholder for
\* an identifier the table does not hold
GenreService_getNames(ids) ==
  [i \in 1..Len(ids) |->
     IF ids[i].t = "number" /\ ids[i].n \in 1..Len(GenreTable)
     THEN JStr(GenreTable[ids[i].n]) ELSE JStr(UnknownGenre)]

\* the season table of data.js: the podcasts that have season details
seasons == <<
  [id |-> JStr(<<"p1">>),
   seasonDetails |-> << [title |-> <<"Origins">>, episodes |-> 8],
                        [title |-> <<"Empires">>, episodes |-> 12] >>],
  [id |-> JStr(<<"p2">>),
   seasonDetails |-> << [title |-> <<"Pilot">>, episodes |-> 1] >>] >>

\* seasons.find((s) => s.id === id)?.seasonDetails || []
SeasonLookup(id) ==
  IF \E i \in 1..Len(seasons) : seasons[i].id = id
  THEN seasons[CHOOSE i \in 1..Len(seasons) :
                 seasons[i].id = id /\ \A j \in 1..(i - 1) : seasons[j].id # id].seasonDetails
  ELSE <<>>

MonthNames == <<"January", "February", "March", "April", "May", "June", "July",
                "August", "September", "October", "November", "December">>

IsLeap(y) == (y % 4 = 0 /\ y % 100 # 0) \/ y % 400 = 0

DaysIn(y, m) == IF m = 2 THEN (IF IsLeap(y) THEN 29 ELSE 28)
                ELSE IF m \in {4, 6, 9, 11} THEN 30 ELSE 31

InvalidDate == [ok |-> FALSE, y |-> 0, m |-> 0, d |-> 0]

\* the number written by the digits s[from..to], or -1 if one is not a digit
RECURSIVE Field(_, _, _)
Field(s, from, to) ==
  IF to < from THEN 0
  ELSE LET hi == Field(s, from, to - 1)
           lo == DigitVal(s[to])
       IN IF hi < 0 \/ lo < 0 THEN -1 ELSE 10 * hi + lo

\* new Date(string) for the date-only ISO forms YYYY, YYYY-MM, YYYY-MM-DD
\* (midnight UTC); every other string over the symbols of this model that
\* is fed to it (words, the empty string) is an Invalid Date
ParseDate(s) ==
  LET len == Len(s)
      y == Field(s, 1, 4)
      m == IF len >= 7 THEN (IF s[5] = "-" THEN Field(s, 6, 7) ELSE -1) ELSE 1
      d == IF len = 10 THEN (IF s[8] = "-" THEN Field(s, 9, 10) ELSE -1) ELSE 1
  IN IF len \in {4, 7, 10} /\ y >= 0 /\ m \in 1..12 /\ d >= 1 /\ d <= DaysIn(y, m)
     THEN [ok |-> TRUE, y |-> y, m |-> m, d |-> d]
     ELSE InvalidDate

\* new Date(v): undefined -> Invalid Date, a (small) number -> a time on
\* 1 January 1970 UTC, anything else -> parsed from its string
NewDate(v) ==
  CASE v.t = "null" -> InvalidDate
    [] v.t = "nan" -> InvalidDate
    [] v.t = "number" -> [ok |-> TRUE, y |-> 1970, m |-> 1, d |-> 1]
    [] OTHER -> ParseDate(JsString(v))

\* the calendar day before (the local day of midnight UTC west of Greenwich)
DayBefore(dt) ==
  IF dt.d > 1 THEN [dt EXCEPT !.d = dt.d - 1]
  ELSE IF dt.m > 1 THEN [dt EXCEPT !.m = dt.m - 1, !.d = DaysIn(dt.y, dt.m - 1)]
  ELSE [dt EXCEPT !.y = dt.y - 1, !.m = 12, !.d = 31]

\* DateUtils.format(dateStr) in a time zone west of Greenwich (west) or not
DateUtils_format(v, west) ==
  LET date == NewDate(v)
      local == IF west THEN DayBefore(date) ELSE date
  IN IF ~date.ok THEN <<>>
     ELSE <<"Updated", " ", MonthNames[local.m], " ">> \o NatToStr(local.d)
          \o <<",", " ">> \o NatToStr(local.y)

(***************************************************************************)
(* The document: the cards of the grid, the dialog's close control, and     *)
(* the body (document.activeElement when no element holds focus).           *)
(***************************************************************************)
Card(i) == [kind |-> "card", n |-> i]

Cards == {Card(i) : i \in 1..MaxCards}

closeBtn == [kind |-> "closeBtn", n |-> 0]

body == [kind |-> "body", n |-> 0]

NoElement == [kind |-> "null", n |-> 0]

\* the listener that open() registers and close() removes
trapKeyListener == "trapKey"

(***************************************************************************)
(* Summaries handed to open(): the view model shape, with numeric genres,   *)
(* named genres, a mixed list, and one with every field missing.            *)
(***************************************************************************)
Summary(id, title, image, description, genres, updated) ==
  [id |-> id, title |-> title, image |-> image, description |-> description,
   genres |-> genres, updated |-> updated]

SummaryA ==
  Summary(JStr(<<"p1">>), JStr(<<"History", " ", "Bites">>), JStr(<<"history.png">>),
          JStr(<<"Stories">>), JArr(<<JNum(1), JNum(3)>>),
          JStr(<<"2", "0", "2", "5", "-", "0", "9", "-", "2", "0">>))

SummaryB ==
  Summary(JStr(<<"p2">>), JStr(<<"Daily">>), JStr(<<"daily.png">>),
          JStr(<<"News">>), JArr(<<JStr(<<"History">>), JStr(<<"Education">>)>>),
          JStr(<<"2", "0", "2", "4", "-", "0", "3", "-", "0", "1">>))

SummaryC ==
  Summary(JStr(<<"p9">>), JStr(<<"Mixed">>), JStr(<<>>),
          JStr(<<>>), JArr(<<JNum(7), JStr(<<"History">>)>>),
          JStr(<<"not", "-", "a", "-", "date">>))

SummaryD == Summary(JNull, JNull, JNull, JNull, JNull, JNull)

\* the summaries open() is called with, by number
Summaries == <<SummaryA, SummaryB, SummaryC, SummaryD>>

\* the page's time zone: west of Greenwich or not (DateUtils.format prints
\* the local day of midnight UTC)
tzWest == FALSE

VARIABLES
  hidden,          \* modal.classList contains "hidden"
  ariaHidden,      \* the modal's aria-hidden attribute
  modalAttrs,      \* the modal's role / aria-modal / aria-labelledby / aria-describedby
  _lastFocus,      \* createModal's _lastFocus
  activeElement,   \* document.activeElement
  keydownListeners,\* the document's capturing keydown listeners, in order
  content,         \* what updateContent wrote into the dialog
  created,         \* the cards createGrid has created so far
  attached,        \* the cards that are in the document
  liveRegion,      \* the text of the document's live-announcement region
  modalCall,       \* the last operation on the dialog and what it did
  trigger,         \* history: the element that held focus when the dialog last left CLOSED
  opened           \* history: the summaries (by number) passed to open() since then

modalVars == <<hidden, ariaHidden, modalAttrs, _lastFocus, activeElement,
               keydownListeners, content, liveRegion, created, attached, modalCall,
               trigger, opened>>

\* the dialog is OPEN when it does not carry the hidden class
IsOpen == ~hidden

\* history: the open() calls made while the dialog was already OPEN
Reopens == IF opened = <<>> THEN 0 ELSE Len(opened) - 1

(***************************************************************************)
(* updateContent(podcast)                                                   *)
(***************************************************************************)
\* the tag texts: the names, each interpolated into its <span>
TagTexts(names) == [i \in 1..Len(names) |-> JsString(names[i])]

\* Array.isArray(genres) && typeof genres[0] === "number"
\*   ? GenreService.getNames(genres) : (genres || [])
ModalGenreNames(genres) ==
  IF genres.t = "array" /\ genres.a # <<>> /\ IsNumberType(genres.a[1])
  THEN JArr(GenreService_getNames(genres.a))
  ELSE Or(genres, JArr(<<>>))

SeasonItems(seasonData) ==
  [i \in 1..Len(seasonData) |->
     [title |-> <<"Season", " ">> \o NatToStr(i) \o <<":", " ">> \o seasonData[i].title,
      episodes |-> IntToStr(seasonData[i].episodes) \o <<" ", "episodes">>]]

\* mutant of updateContent: the description is written only when present
updateContent_KeepDesc(podcast, west) ==
  [imageSrc |-> JsString(Or(podcast.image, JStr(<<>>))),
   imageAlt |-> JsString(Or(podcast.title, JStr(<<"Podcast", " ", "cover">>))),
   title |-> JsString(Or(podcast.title, JStr(<<>>))),
   desc |-> IF Truthy(podcast.description) THEN JsString(podcast.description) ELSE content.desc,
   genres |-> TagTexts(ModalGenreNames(podcast.genres).a),
   updated |-> DateUtils_format(podcast.updated, west),
   seasonList |-> SeasonItems(SeasonLookup(podcast.id))]

updateContent(podcast, west) ==
  [imageSrc |-> JsString(Or(podcast.image, JStr(<<>>))),
   imageAlt |-> JsString(Or(podcast.title, JStr(<<"Podcast", " ", "cover">>))),
   title |-> JsString(Or(podcast.title, JStr(<<>>))),
   desc |-> JsString(Or(podcast.description, JStr(<<>>))),
   genres |-> TagTexts(ModalGenreNames(podcast.genres).a),
   updated |-> DateUtils_format(podcast.updated, west),
   seasonList |-> SeasonItems(SeasonLookup(podcast.id))]

\* the dialog content of index.html before the first open()
EmptyContent ==
  [imageSrc |-> <<>>, imageAlt |-> <<>>, title |-> <<>>, desc |-> <<>>,
   genres |-> <<>>, updated |-> <<>>, seasonList |-> <<>>]

(***************************************************************************)
(* Focus and listeners.                                                     *)
(***************************************************************************)
\* the elements focus() and Tab can put focus on: the attached cards
\* (tabindex 0) and, while the dialog is shown, its close control
Focusable(att, hid) == att \cup (IF hid THEN {} ELSE {closeBtn})

\* element.focus(): moves focus when the element can take it
FocusOn(e, active, att, hid) == IF e \in Focusable(att, hid) THEN e ELSE active

\* document.contains(e)
DocumentContains(e, att) == e \in att \cup {closeBtn, body}

\* mutant of AddEventListener: a new callback is registered on every call
AddEventListener_NoDedupe(list, cb) == Append(list, cb)

\* addEventListener: a listener already registered with the same type,
\* callback and capture flag is not added again
AddEventListener(list, cb) ==
  IF \E i \in 1..Len(list) : list[i] = cb THEN list ELSE Append(list, cb)

\* removeEventListener: removes the registered listener, if any
RemoveEventListener(list, cb) ==
  IF \E i \in 1..Len(list) : list[i] = cb
  THEN LET k == CHOOSE i \in 1..Len(list) : list[i] = cb /\ \A j \in 1..(i - 1) : list[j] # cb
       IN SubSeq(list, 1, k - 1) \o SubSeq(list, k + 1, Len(list))
  ELSE list

\* the position of an element in document order (the grid precedes the dialog)
Pos(e) == IF e.kind = "card" THEN e.n ELSE IF e.kind = "closeBtn" THEN MaxCards + 1 ELSE 0

\* where Tab moves focus: the next focusable element, wrapping to the first
TabNext(from, att, hid) ==
  LET f == Focusable(att, hid)
      later == {e \in f : Pos(e) > Pos(from)}
      pick(S) == CHOOSE e \in S : \A o \in S : Pos(e) <= Pos(o)
  IN IF later # {} THEN pick(later) ELSE IF f # {} THEN pick(f) ELSE from

\* where Shift+Tab moves focus: the previous focusable element, wrapping
TabPrev(from, att, hid) ==
  LET f == Focusable(att, hid)
      earlier == {e \in f : Pos(e) < Pos(from)}
      pick(S) == CHOOSE e \in S : \A o \in S : Pos(e) >= Pos(o)
  IN IF earlier # {} THEN pick(earlier) ELSE IF f # {} THEN pick(f) ELSE from

(***************************************************************************)
(* The dialog controller.                                                   *)
(***************************************************************************)
Call(name, key, wasOpen, closeCalls, focusCalls, threw) ==
  [name |-> name, key |-> key, wasOpen |-> wasOpen, closeCalls |-> closeCalls,
   focusCalls |-> focusCalls, threw |-> threw]

\* the one-time ARIA baseline of createModal
AriaBaseline ==
  [role |-> "dialog", ariaModal |-> "true", labelledby |-> "modalTitle",
   describedby |-> "modalDesc"]

ModalInit ==
  /\ hidden = TRUE
  /\ ariaHidden = "absent"
  /\ modalAttrs = AriaBaseline
  /\ _lastFocus = NoElement
  /\ activeElement = body
  /\ keydownListeners = <<>>
  /\ content = EmptyContent
  /\ liveRegion = <<>>
  /\ created = {}
  /\ attached = {}
  /\ modalCall = Call("init", "", FALSE, 0, <<>>, FALSE)
  /\ trigger = NoElement
  /\ opened = <<>>

\* mutant of OpenFocus: focus() is called before the hidden class is removed
OpenFocus_BeforeShow(active, att, hidAfter) == FocusOn(closeBtn, active, att, hidden)

\* closeBtn?.focus(), called once the hidden class is removed
OpenFocus(active, att, hidAfter) == FocusOn(closeBtn, active, att, hidAfter)

\* api.open(podcast)
Open(i) ==
  /\ IsOpen => Len(opened) <= MaxReopens
  /\ _lastFocus' = activeElement
  /\ content' = updateContent(Summaries[i], tzWest)
  /\ hidden' = FALSE
  /\ ariaHidden' = "false"
  /\ activeElement' = OpenFocus(activeElement, attached, FALSE)
  /\ keydownListeners' = AddEventListener(keydownListeners, trapKeyListener)
  /\ modalCall' = Call("open", "", IsOpen, 0, <<closeBtn>>, FALSE)
  /\ trigger' = IF IsOpen THEN trigger ELSE activeElement
  /\ opened' = IF IsOpen THEN Append(opened, i) ELSE <<i>>
  /\ UNCHANGED <<modalAttrs, liveRegion, created, attached>>

\* mutant of RestoreCalls: no document.contains check
RestoreCalls_NoContains(lf, att) == IF lf # NoElement THEN <<lf>> ELSE <<>>

\* the elements close() calls focus() on:
\* if (_lastFocus && document.contains(_lastFocus)) _lastFocus.focus()
RestoreCalls(lf, att) ==
  IF lf # NoElement /\ DocumentContains(lf, att) THEN <<lf>> ELSE <<>>

\* focus() on each element of calls in turn; the dialog is hidden by then
RECURSIVE FocusAll(_, _, _)
FocusAll(calls, active, att) ==
  IF calls = <<>> THEN active
  ELSE FocusAll(Tail(calls), FocusOn(calls[1], active, att, TRUE), att)

\* a focus() call on null throws
FocusThrows(calls) == \E i \in 1..Len(calls) : calls[i] = NoElement

\* mutant of CloseBody: _lastFocus is not cleared
CloseBody_KeepLastFocus(name, key, times) ==
  LET calls == RestoreCalls(_lastFocus, attached)
  IN /\ hidden' = TRUE
     /\ ariaHidden' = "true"
     /\ keydownListeners' = RemoveEventListener(keydownListeners, trapKeyListener)
     /\ activeElement' = FocusAll(calls, activeElement, attached)
     /\ modalCall' = Call(name, key, IsOpen, times, calls, FALSE)
     /\ UNCHANGED <<modalAttrs, _lastFocus, content, liveRegion, created, attached,
                    trigger, opened>>

\* mutant of CloseBody: aria-hidden is not set
CloseBody_KeepAria(name, key, times) ==
  LET calls == RestoreCalls(_lastFocus, attached)
  IN /\ hidden' = TRUE
     /\ keydownListeners' = RemoveEventListener(keydownListeners, trapKeyListener)
     /\ activeElement' = FocusAll(calls, activeElement, attached)
     /\ _lastFocus' = NoElement
     /\ modalCall' = Call(name, key, IsOpen, times, calls, FALSE)
     /\ UNCHANGED <<ariaHidden, modalAttrs, content, liveRegion, created, attached,
                    trigger, opened>>

\* mutant of CloseBody: the hidden class is toggled instead of added
CloseBody_ToggleHidden(name, key, times) ==
  LET calls == RestoreCalls(_lastFocus, attached)
  IN /\ hidden' = ~hidden
     /\ ariaHidden' = "true"
     /\ keydownListeners' = RemoveEventListener(keydownListeners, trapKeyListener)
     /\ activeElement' = FocusAll(calls, activeElement, attached)
     /\ _lastFocus' = NoElement
     /\ modalCall' = Call(name, key, IsOpen, times, calls, FALSE)
     /\ UNCHANGED <<modalAttrs, content, liveRegion, created, attached, trigger, opened>>

\* the body of api.close(), reached through `name` (close() or the Escape listener)
CloseBody(name, key, times) ==
  LET calls == RestoreCalls(_lastFocus, attached)
      threw == FocusThrows(calls)
  IN /\ hidden' = TRUE
     /\ ariaHidden' = "true"
     /\ keydownListeners' = RemoveEventListener(keydownListeners, trapKeyListener)
     /\ activeElement' = IF threw THEN activeElement
                         ELSE FocusAll(calls, activeElement, attached)
     /\ _lastFocus' = IF threw THEN _lastFocus ELSE NoElement
     /\ modalCall' = Call(name, key, IsOpen, times, calls, threw)
     /\ UNCHANGED <<modalAttrs, content, liveRegion, created, attached, trigger, opened>>

\* api.close()
Close == CloseBody("close", "", 1)

\* mutant of TrapKeyCloses: the listener closes on every key
TrapKeyCloses_AnyKey(key) == TRUE

\* trapKey(e): the keys on which the listener calls api.close()
TrapKeyCloses(key) == key = "Escape"

\* a keydown of Escape reaches every registered capturing listener
KeyDownEscape ==
  IF keydownListeners # <<>> /\ TrapKeyCloses("Escape")
  THEN CloseBody("keydown", "Escape", Len(keydownListeners))
  ELSE /\ modalCall' = Call("keydown", "Escape", IsOpen, 0, <<>>, FALSE)
       /\ UNCHANGED <<hidden, ariaHidden, modalAttrs, _lastFocus, activeElement,
                      keydownListeners, content, liveRegion, created, attached, trigger,
                      opened>>

\* a keydown of Tab or Shift+Tab: trapKey lets it pass, and the browser's
\* default action moves focus through the document's tab order
KeyDownTab(shift) ==
  IF keydownListeners # <<>> /\ TrapKeyCloses("Tab")
  THEN CloseBody("keydown", "Tab", Len(keydownListeners))
  ELSE /\ activeElement' = IF shift THEN TabPrev(activeElement, attached, hidden)
                           ELSE TabNext(activeElement, attached, hidden)
       /\ modalCall' = Call("keydown", IF shift THEN "Shift+Tab" ELSE "Tab", IsOpen, 0, <<>>, FALSE)
       /\ UNCHANGED <<hidden, ariaHidden, modalAttrs, _lastFocus,
                      keydownListeners, content, liveRegion, created, attached, trigger,
                      opened>>

\* createGrid().render(list) with a list of k summaries: the container is
\* emptied (a focused card loses focus to the body) and k new cards appended
GridRender(k) ==
  /\ Cardinality(created) + k <= MaxCards
  /\ LET fresh == {Card(i) : i \in (Cardinality(created) + 1)..(Cardinality(created) + k)}
     IN /\ created' = created \cup fresh
        /\ attached' = fresh
  /\ activeElement' = IF activeElement \in attached THEN body ELSE activeElement
  /\ modalCall' = Call("render", "", IsOpen, 0, <<>>, FALSE)
  /\ UNCHANGED <<hidden, ariaHidden, modalAttrs, _lastFocus,
                 keydownListeners, content, liveRegion, trigger, opened>>

ModalNext ==
  \/ \E i \in DOMAIN Summaries : Open(i)
  \/ Close
  \/ KeyDownEscape
  \/ \E shift \in BOOLEAN : KeyDownTab(shift)
  \/ \E k \in 0..2 : GridRender(k)


(***************************************************************************)
(* Properties of the dialog controller.                                     *)
(***************************************************************************)
IsEscape(call) == call.name = "keydown" /\ call.key = "Escape"

programModalVars == <<hidden, ariaHidden, modalAttrs, _lastFocus, activeElement,
                      keydownListeners, content, liveRegion, created, attached>>

\* C1: the dialog starts CLOSED, and every step is one of the transitions
\* CLOSED -open-> OPEN, OPEN -open-> OPEN, OPEN -close/Escape-> CLOSED:
\* open() always ends OPEN, close() always ends CLOSED, Escape ends CLOSED
\* and changes nothing at all when the dialog was CLOSED, and no other
\* operation (Tab, Shift+Tab, a grid render) changes the state.
C1_Transitions ==
  /\ modalCall'.name = "open" => IsOpen'
  /\ modalCall'.name = "close" => ~IsOpen'
  /\ IsEscape(modalCall') => ~IsOpen'
  /\ (IsEscape(modalCall') /\ ~IsOpen) => UNCHANGED programModalVars
  /\ (modalCall'.name \notin {"open", "close"} /\ ~IsEscape(modalCall')) => (IsOpen' <=> IsOpen)

C1_StateMachine == ~IsOpen /\ [][C1_Transitions]_modalVars

\* an Escape key-down arrived while the dialog was CLOSED after it had been opened
C1_Witness == IsEscape(modalCall) /\ ~modalCall.wasOpen /\ ~IsOpen /\ opened # <<>>

\* C2: at most one Escape listener is registered, exactly one iff the dialog
\* is OPEN, and an Escape key-down performs one close() when the dialog was
\* OPEN (however many open() calls preceded it) and none when it was CLOSED.
C2_OneListener ==
  /\ Len(keydownListeners) <= 1
  /\ (Len(keydownListeners) = 1) <=> IsOpen
  /\ IsEscape(modalCall) => modalCall.closeCalls = (IF modalCall.wasOpen THEN 1 ELSE 0)

\* Escape pressed after open(A), open(B): one close
C2_Witness ==
  IsEscape(modalCall) /\ modalCall.wasOpen /\ Len(opened) = 2 /\ modalCall.closeCalls = 1
  /\ keydownListeners = <<>>

Date2025(west) ==
  <<"Updated", " ", "September", " ">> \o (IF west THEN <<"1", "9">> ELSE <<"2", "0">>)
  \o <<",", " ", "2", "0", "2", "5">>

Date2024(west) ==
  <<"Updated", " ">> \o (IF west THEN <<"February", " ", "2", "9">> ELSE <<"March", " ", "1">>)
  \o <<",", " ", "2", "0", "2", "4">>

\* the dialog content each summary is to produce, written out
ExpectedContent(i, west) ==
  CASE i = 1 ->
         [imageSrc |-> <<"history.png">>,
          imageAlt |-> <<"History", " ", "Bites">>,
          title |-> <<"History", " ", "Bites">>,
          desc |-> <<"Stories">>,
          genres |-> << <<"Personal", " ", "Growth">>, <<"History">> >>,
          updated |-> Date2025(west),
          seasonList |-> <<
            [title |-> <<"Season", " ", "1", ":", " ", "Origins">>,
             episodes |-> <<"8", " ", "episodes">>],
            [title |-> <<"Season", " ", "2", ":", " ", "Empires">>,
             episodes |-> <<"1", "2", " ", "episodes">>] >>]
    [] i = 2 ->
         [imageSrc |-> <<"daily.png">>,
          imageAlt |-> <<"Daily">>,
          title |-> <<"Daily">>,
          desc |-> <<"News">>,
          genres |-> << <<"History">>, <<"Education">> >>,
          updated |-> Date2024(west),
          seasonList |-> <<
            [title |-> <<"Season", " ", "1", ":", " ", "Pilot">>,
             episodes |-> <<"1", " ", "episodes">>] >>]
    [] i = 3 ->
         [imageSrc |-> <<>>,
          imageAlt |-> <<"Mixed">>,
          title |-> <<"Mixed">>,
          desc |-> <<>>,
          genres |-> << <<"Unknown">>, <<"Unknown">> >>,
          updated |-> <<>>,
          seasonList |-> <<>>]
    [] OTHER ->
         [imageSrc |-> <<>>,
          imageAlt |-> <<"Podcast", " ", "cover">>,
          title |-> <<>>,
          desc |-> <<>>,
          genres |-> <<>>,
          updated |-> <<>>,
          seasonList |-> <<>>]

\* C3: after open(A) then open(B) with no close() in between (and after any
\* open), every part of the dialog content is the one B alone produces.
C3_ContentOfLast ==
  opened # <<>> => content = ExpectedContent(opened[Len(opened)], tzWest)

\* open(A) then open(D), D having every field missing
C3_Witness ==
  /\ IsOpen /\ modalCall.name = "open" /\ modalCall.wasOpen
  /\ opened = <<1, 4>>
  /\ content.desc = <<>> /\ content.seasonList = <<>>

ClosesFromOpen == IsOpen /\ ~IsOpen'

\* C4: when open() was called on a CLOSED dialog while the card E held
\* focus and no further open() followed, then a close() or Escape puts focus
\* on E if E is still in the document; if E was removed, focus() is called
\* on nothing, focus stays where it was and nothing throws.
C4_Restore ==
  (ClosesFromOpen /\ Reopens = 0 /\ trigger \in Cards) =>
     /\ trigger \in attached => activeElement' = trigger
     /\ trigger \notin attached =>
          /\ modalCall'.focusCalls = <<>>
          /\ activeElement' = activeElement
     /\ ~modalCall'.threw
     /\ _lastFocus' = NoElement

C4_FocusRestore == [][C4_Restore]_modalVars

\* the card that held focus at open() was removed before the close
C4_Witness ==
  /\ modalCall.name \in {"close", "keydown"} /\ modalCall.wasOpen /\ ~IsOpen
  /\ Reopens = 0 /\ trigger \in Cards /\ trigger \notin attached
  /\ modalCall.focusCalls = <<>> /\ ~modalCall.threw

\* C5: whenever the dialog goes from OPEN to CLOSED, focus is on the element
\* that held focus when the dialog last left CLOSED, if that card is still
\* attached, however many open() calls were made while the dialog was open.
C5_Returns ==
  (ClosesFromOpen /\ trigger \in attached) => activeElement' = trigger

C5_FocusReturnsToTrigger == [][C5_Returns]_modalVars

\* C6: while the dialog is OPEN, focus is inside the dialog (on its close
\* control, the only focusable element the controller knows inside it).
C6_FocusTrapped == IsOpen => activeElement = closeBtn

\* C7: every open(), on a CLOSED or on an OPEN dialog, ends with focus on
\* the close control.
C7_Focus == modalCall'.name = "open" => activeElement' = closeBtn

C7_OpenFocusesClose == [][C7_Focus]_modalVars

\* a re-entrant open() after focus had been moved to a card
C7_Witness ==
  /\ modalCall.name = "open" /\ modalCall.wasOpen
  /\ _lastFocus \in Cards /\ activeElement = closeBtn

\* the announcement for a summary: "Dialog opened: <title>"
Announcement(i) ==
  <<"Dialog opened:", " ">> \o JsString(Or(Summaries[i].title, JStr(<<>>)))

\* C16: after every open(summary) the text of the live-announcement region
\* is "Dialog opened: <title>" for the summary being opened.
C16_Announced ==
  modalCall.name = "open" => liveRegion = Announcement(opened[Len(opened)])

\* C17: whenever the dialog is CLOSED (initially and after every close()
\* or Escape) the remembered focus target is null.
C17_NoStaleFocus == ~IsOpen => _lastFocus = NoElement

\* the dialog was closed by Escape after the remembered card had been detached
C17_Witness ==
  /\ IsEscape(modalCall) /\ modalCall.wasOpen /\ ~IsOpen
  /\ trigger \in Cards /\ trigger \notin attached /\ _lastFocus = NoElement

\* C20: after every open() the dialog is shown and aria-hidden is "false",
\* after every close() it is hidden and aria-hidden is "true", and the role,
\* aria-modal, aria-labelledby and aria-describedby attributes keep the
\* values set at start-up.
C20_VisibilityFlags ==
  /\ modalCall.name = "open" => (IsOpen /\ ariaHidden = "false")
  /\ modalCall.name = "close" => (~IsOpen /\ ariaHidden = "true")
  /\ IsOpen <=> ariaHidden = "false"
  /\ modalAttrs = AriaBaseline

\* close() on a dialog that had been opened twice
C20_Witness ==
  /\ modalCall.name = "close" /\ modalCall.wasOpen /\ Reopens = 1
  /\ hidden /\ ariaHidden = "true"

\* C21: close() on a CLOSED dialog leaves it hidden, with no Escape listener,
\* a null remembered focus target and focus where it was (no focus() call);
\* and a close() right after a close() changes nothing at all.
C21_Step ==
  /\ (modalCall'.name = "close" /\ ~IsOpen) =>
       /\ hidden' /\ keydownListeners' = <<>> /\ _lastFocus' = NoElement
       /\ activeElement' = activeElement /\ modalCall'.focusCalls = <<>>
       /\ ~modalCall'.threw
  /\ (modalCall'.name = "close" /\ modalCall.name = "close") =>
       UNCHANGED programModalVars

C21_CloseIdempotent == [][C21_Step]_modalVars

\* a second close() while a card holds the focus the first one restored
C21_Witness ==
  /\ modalCall.name = "close" /\ ~modalCall.wasOpen /\ opened # <<>>
  /\ activeElement \in Cards /\ hidden /\ _lastFocus = NoElement

(***************************************************************************)
(* The preview element <podcast-preview>.                                   *)
(***************************************************************************)
observedAttributes == <<"pid", "title", "image", "genres", "seasons", "updated">>

Observed == {observedAttributes[i] : i \in 1..Len(observedAttributes)}

\* a structured object: the fields the element reads, JNull when missing
Struct(id, title, image, genres, seasonCount, updated, description) ==
  [isNull |-> FALSE, id |-> id, title |-> title, image |-> image, genres |-> genres,
   seasons |-> seasonCount, updated |-> updated, description |-> description]

\* this._data === null: every optional read (this._data?.x) is undefined
NoData ==
  [isNull |-> TRUE, id |-> JNull, title |-> JNull, image |-> JNull, genres |-> JNull,
   seasons |-> JNull, updated |-> JNull, description |-> JNull]

\* getAttribute(name): the string, or null when the attribute is absent
GetAttribute(at, name) == IF name \in DOMAIN at THEN JStr(at[name]) ELSE JNull

\* the attributes after setAttribute(name, str)
PutAttribute(at, name, str) ==
  [k \in (DOMAIN at) \cup {name} |-> IF k = name THEN str ELSE at[k]]

\* the attributes after removeAttribute(name)
DropAttribute(at, name) == [k \in (DOMAIN at) \ {name} |-> at[k]]

\* _readInt(attr) for attr = "seasons"
ReadInt(at, data) ==
  LET n == ToNumber(GetAttribute(at, "seasons"))
  IN IF n.t = "number" THEN n ELSE Coalesce(data.seasons, JNum(0))

\* mutant of CoerceToken: every token is kept as a string
CoerceToken_Keep(x) == JStr(x)

\* (x) => (isNaN(Number(x)) ? x : Number(x))
CoerceToken(x) == IF ToNumber(JStr(x)).t = "nan" THEN JStr(x) ELSE ToNumber(JStr(x))

\* _readGenres()
ReadGenres(at, data) ==
  LET raw == GetAttribute(at, "genres")
      pieces == Split(raw.s)
      trimmed == [i \in 1..Len(pieces) |-> Trim(pieces[i])]
      NonEmpty(x) == x # <<>>
      kept == SelectSeq(trimmed, NonEmpty)
  IN IF IsNullish(raw) THEN Coalesce(data.genres, JArr(<<>>))
     ELSE JArr([i \in 1..Len(kept) |-> CoerceToken(kept[i])])

\* get value()
Value(at, data) ==
  [id |-> Or(Or(GetAttribute(at, "pid"), data.id), JStr(<<>>)),
   title |-> Or(Or(GetAttribute(at, "title"), data.title), JStr(<<>>)),
   image |-> Or(Or(GetAttribute(at, "image"), data.image), JStr(<<>>)),
   genres |-> ReadGenres(at, data),
   seasons |-> ReadInt(at, data),
   updated |-> Or(Or(GetAttribute(at, "updated"), data.updated), JStr(<<>>)),
   description |-> Or(data.description, JStr(<<>>))]

\* mutant of GreaterThanOne: s >= 1
GreaterThanOne_AtLeastOne(v) == ToNumber(v).t = "number" /\ ToNumber(v).n >= 1

\* s > 1
GreaterThanOne(v) == ToNumber(v).t = "number" /\ ToNumber(v).n > 1

\* s ? `${s} season${s > 1 ? "s" : ""}` : ""
SeasonLabel(v) ==
  IF Truthy(v)
  THEN JsString(v) \o <<" ", "season">> \o (IF GreaterThanOne(v) THEN <<"s">> ELSE <<>>)
  ELSE <<>>

\* the label _syncAria() computes (the symbol "-" between the blanks stands
\* for the dash of the source)
AriaLabel(at, data) ==
  LET t == JsString(Or(Or(GetAttribute(at, "title"), data.title), JStr(<<"Podcast">>)))
      seasonsLabel == SeasonLabel(ReadInt(at, data))
  IN IF seasonsLabel # <<>> THEN t \o <<" ", "-", " ">> \o seasonsLabel ELSE t

\* _syncAria()
SyncAria(at, data) == PutAttribute(at, "aria-label", AriaLabel(at, data))

\* the card before its first render (the template)
BlankCard ==
  [imgSrc |-> <<>>, imgAlt |-> <<>>, title |-> <<>>, seasons |-> <<>>,
   updated |-> <<>>, tags |-> <<>>]

\* mutant of CardGenreNames: each numeric token is resolved, the others kept
CardGenreNames_Partial(genres) ==
  IF genres.t = "array"
  THEN JArr([i \in 1..Len(genres.a) |->
              IF IsNumberType(genres.a[i]) THEN GenreService_getNames(<<genres.a[i]>>)[1]
              ELSE genres.a[i]])
  ELSE Or(genres, JArr(<<>>))

\* typeof v.genres?.[0] === "number" ? GenreService.getNames(v.genres) : (v.genres || [])
CardGenreNames(genres) ==
  IF genres.t = "array" /\ genres.a # <<>> /\ IsNumberType(genres.a[1])
  THEN JArr(GenreService_getNames(genres.a))
  ELSE Or(genres, JArr(<<>>))

\* _render(): the card afterwards, and whether names.map threw (the tags
\* are then left as they were)
Render(dom, v, west) ==
  LET s == IF v.seasons.t = "number" THEN v.seasons ELSE JNum(0)
      names == CardGenreNames(v.genres)
      threw == names.t # "array"
  IN [dom |-> [imgSrc |-> JsString(Or(v.image, JStr(<<>>))),
               imgAlt |-> JsString(Or(v.title, JStr(<<"Podcast", " ", "cover">>))),
               title |-> JsString(Or(v.title, JStr(<<>>))),
               seasons |-> SeasonLabel(s),
               updated |-> IF Truthy(v.updated) THEN DateUtils_format(v.updated, west) ELSE <<>>,
               tags |-> IF threw THEN dom.tags ELSE TagTexts(names.a)],
      threw |-> threw]

\* attributeChangedCallback() on the element el = [attrs, dom, reported]:
\* _syncAria(), then _render(); an exception of the callback is reported,
\* not thrown to the caller of setAttribute
AttributeChanged(el, data, west) ==
  LET at == SyncAria(el.attrs, data)
      r == Render(el.dom, Value(at, data), west)
  IN [attrs |-> at, dom |-> r.dom, reported |-> el.reported + (IF r.threw THEN 1 ELSE 0)]

\* setAttribute(name, str) of an observed attribute, with its callback
SetObserved(el, name, str, data, west) ==
  AttributeChanged([el EXCEPT !.attrs = PutAttribute(el.attrs, name, str)], data, west)

\* mutant of DataAttributes: a missing field leaves its attribute alone
DataAttributes_SkipMissing(obj) ==
  LET all == << <<"pid", obj.id>>, <<"title", obj.title>>, <<"image", obj.image>>,
                <<"seasons", obj.seasons>>, <<"updated", obj.updated>>,
                <<"genres", obj.genres>> >>
      Present(pair) == ~IsNullish(pair[2])
      kept == SelectSeq(all, Present)
  IN [i \in 1..Len(kept) |-> <<kept[i][1], JsString(kept[i][2])>>]

\* the setAttribute calls of `set data(obj)`, in order
DataAttributes(obj) ==
  << <<"pid", JsString(Coalesce(obj.id, JStr(<<>>)))>>,
     <<"title", JsString(Coalesce(obj.title, JStr(<<>>)))>>,
     <<"image", JsString(Coalesce(obj.image, JStr(<<>>)))>>,
     <<"seasons", JsString(Coalesce(obj.seasons, JStr(<<>>)))>>,
     <<"updated", JsString(Coalesce(obj.updated, JStr(<<>>)))>>,
     <<"genres", IF obj.genres.t = "array" THEN Join(obj.genres.a)
                 ELSE JsString(Coalesce(obj.genres, JStr(<<>>)))>> >>

RECURSIVE SetAll(_, _, _, _)
SetAll(el, pairs, data, west) ==
  IF pairs = <<>> THEN el
  ELSE SetAll(SetObserved(el, pairs[1][1], pairs[1][2], data, west), Tail(pairs), data, west)

(***************************************************************************)
(* Structured objects assigned to .data and attribute values set from       *)
(* outside.                                                                 *)
(***************************************************************************)
IsoSept == <<"2", "0", "2", "5", "-", "0", "9", "-", "2", "0">>

IsoMarch == <<"2", "0", "2", "4", "-", "0", "3", "-", "0", "1">>

\* the README's example: numeric genre identifiers
DataIds ==
  Struct(JStr(<<"p1">>), JStr(<<"History", " ", "Bites">>), JStr(<<"history.png">>),
         JArr(<<JNum(1), JNum(3)>>), JNum(2), JStr(IsoSept), JStr(<<"Stories">>))

\* display names
DataNames ==
  Struct(JStr(<<"p2">>), JStr(<<"Daily">>), JStr(<<"daily.png">>),
         JArr(<<JStr(<<"History">>), JStr(<<"Education">>)>>), JNum(1), JStr(IsoMarch),
         JStr(<<"News">>))

\* a mixed list, no seasons, empty description
DataMixed ==
  Struct(JStr(<<"p1">>), JStr(<<"Daily">>), JStr(<<"daily.png">>),
         JArr(<<JNum(7), JStr(<<"History">>)>>), JNum(0), JStr(IsoSept), JStr(<<>>))

\* a display name that is a numeral
DataNumeral ==
  Struct(JStr(<<"p2">>), JStr(<<"Daily">>), JStr(<<"daily.png">>),
         JArr(<<JStr(<<"History">>), JStr(<<"2">>)>>), JNum(12), JStr(IsoMarch),
         JStr(<<"News">>))

\* a display name with a comma and a blank in it
DataComma ==
  Struct(JStr(<<"p2">>), JStr(<<"Daily">>), JStr(<<"daily.png">>),
         JArr(<<JStr(<<"Kids", ",", " ", "Family">>)>>), JNum(1), JStr(IsoMarch),
         JStr(<<"News">>))

\* every field missing
DataEmpty == Struct(JNull, JNull, JNull, JNull, JNull, JNull, JNull)

\* fields of the wrong type: genres a string, seasons a word
DataWrong ==
  Struct(JStr(<<"p1">>), JNull, JNull, JStr(<<"History">>), JStr(<<"many">>), JNull,
         JStr(<<"Stories">>))

StructInputs == <<DataIds, DataNames, DataMixed, DataNumeral, DataComma, DataEmpty, DataWrong>>

\* the value an outside caller sets each observed attribute to
OutsideValue(name) ==
  CASE name = "pid" -> <<"p3">>
    [] name = "title" -> <<"Other">>
    [] name = "image" -> <<"other.png">>
    [] name = "genres" -> <<"3", ",", " ", "Comedy", ",">>
    [] name = "seasons" -> <<"many">>
    [] OTHER -> <<"not", "-", "a", "-", "date">>

VARIABLES
  attrs,           \* the element's attributes: name -> string, for those present
  _data,           \* this._data
  dom,             \* the shadow tree's card: image, title, season and update labels, tags
  connected,       \* the element is in a document (connectedCallback has run)
  previewCall,     \* the last operation on the element and what it did
  edits            \* history: the attribute edits from outside since an object was
                   \* last assigned to .data; above MaxEdits once .data = null closed them

previewVars == <<attrs, _data, dom, connected, previewCall, edits>>

vars == <<hidden, ariaHidden, modalAttrs, _lastFocus, activeElement,
          keydownListeners, content, liveRegion, created, attached, modalCall, trigger,
          opened,
          attrs, _data, dom, connected, previewCall, edits>>

\* streak: the activations in a row that this operation completes
PCall(name, key, defaultPrevented, dispatched, reported, streak) ==
  [name |-> name, key |-> key, defaultPrevented |-> defaultPrevented,
   dispatched |-> dispatched, reported |-> reported, streak |-> streak]

\* the state after the constructor
PreviewInit ==
  /\ attrs = <<>>
  /\ _data = NoData
  /\ dom = BlankCard
  /\ connected = FALSE
  /\ previewCall = PCall("new", "", FALSE, <<>>, 0, 0)
  /\ edits = 0

Element == [attrs |-> attrs, dom |-> dom, reported |-> 0]

\* el.data = obj, obj an object
SetData(i) ==
  LET obj == StructInputs[i]
      el == SetAll(Element, DataAttributes(obj), obj, tzWest)
  IN /\ _data' = obj
     /\ attrs' = el.attrs
     /\ dom' = el.dom
     /\ previewCall' = PCall("setData", "", FALSE, <<>>, el.reported, 0)
     /\ edits' = 0
     /\ UNCHANGED connected

\* el.data = null
SetDataNull ==
  /\ edits <= MaxEdits
  /\ _data' = NoData
  /\ previewCall' = PCall("setDataNull", "", FALSE, <<>>, 0, 0)
  /\ edits' = MaxEdits + 1
  /\ UNCHANGED <<attrs, dom, connected>>

\* el.setAttribute(name, value) from outside
SetAttribute(name) ==
  /\ edits < MaxEdits
  /\ LET el == SetObserved(Element, name, OutsideValue(name), _data, tzWest)
     IN /\ attrs' = el.attrs
        /\ dom' = el.dom
        /\ previewCall' = PCall("setAttribute", name, FALSE, <<>>, el.reported, 0)
  /\ edits' = edits + 1
  /\ UNCHANGED <<_data, connected>>

\* el.removeAttribute(name) from outside
RemoveAttribute(name) ==
  /\ edits < MaxEdits
  /\ name \in DOMAIN attrs
  /\ LET el == AttributeChanged([Element EXCEPT !.attrs = DropAttribute(attrs, name)],
                                _data, tzWest)
     IN /\ attrs' = el.attrs
        /\ dom' = el.dom
        /\ previewCall' = PCall("removeAttribute", name, FALSE, <<>>, el.reported, 0)
  /\ edits' = edits + 1
  /\ UNCHANGED <<_data, connected>>

\* connectedCallback()
Connect ==
  /\ ~connected
  /\ LET a1 == IF "tabindex" \in DOMAIN attrs THEN attrs
               ELSE PutAttribute(attrs, "tabindex", <<"0">>)
         a2 == IF "role" \in DOMAIN a1 THEN a1 ELSE PutAttribute(a1, "role", <<"button">>)
         el == AttributeChanged([Element EXCEPT !.attrs = a2], _data, tzWest)
     IN /\ attrs' = el.attrs
        /\ dom' = el.dom
        /\ previewCall' = PCall("connect", "", FALSE, <<>>, el.reported, 0)
  /\ connected' = TRUE
  /\ UNCHANGED <<_data, edits>>

\* _emitSelect(): the events it dispatches
EmitSelect(at, data) ==
  << [type |-> "podcast-select", bubbles |-> TRUE, composed |-> TRUE,
      detail |-> Value(at, data)] >>

\* a click on the card: the click listener
Click ==
  /\ connected
  /\ previewCall.streak < MaxStreak
  /\ previewCall' = PCall("click", "", FALSE, EmitSelect(attrs, _data), 0,
                          previewCall.streak + 1)
  /\ UNCHANGED <<attrs, _data, dom, connected, edits>>

\* mutant of HandlesKey: the Space key is not handled
HandlesKey_EnterOnly(key) == key = "Enter"

\* e.key === "Enter" || e.key === " "
HandlesKey(key) == key = "Enter" \/ key = " "

Keys == {"Enter", " ", "Escape", "a"}

\* a keydown on the host: the keydown listener
KeyDown(key) ==
  /\ connected
  /\ previewCall.streak < MaxStreak
  /\ previewCall' =
       IF HandlesKey(key)
       THEN PCall("keydown", key, TRUE, EmitSelect(attrs, _data), 0, previewCall.streak + 1)
       ELSE PCall("keydown", key, FALSE, <<>>, 0, 0)
  /\ UNCHANGED <<attrs, _data, dom, connected, edits>>

\* the element under assignments of .data and attribute edits
PreviewNext ==
  \/ \E i \in DOMAIN StructInputs : SetData(i)
  \/ SetDataNull
  \/ \E name \in Observed : SetAttribute(name)
  \/ \E name \in Observed : RemoveAttribute(name)
  \/ Connect

\* the element under activation
ActivationNext ==
  \/ \E i \in DOMAIN StructInputs : SetData(i)
  \/ SetDataNull
  \/ Connect
  \/ Click
  \/ \E key \in Keys : KeyDown(key)

Init == ModalInit /\ PreviewInit

PreviewSpec == Init /\ [][PreviewNext /\ UNCHANGED modalVars]_vars

ActivationSpec == Init /\ [][ActivationNext /\ UNCHANGED modalVars]_vars

Next ==
  \/ ModalNext /\ UNCHANGED previewVars
  \/ PreviewNext /\ UNCHANGED modalVars
  \/ ActivationNext /\ UNCHANGED modalVars

Spec == Init /\ [][Next]_vars

ModalSpec == Init /\ [][ModalNext /\ UNCHANGED previewVars]_vars

(***************************************************************************)
(* Properties of the preview element.                                       *)
(***************************************************************************)
IsActivation(call) ==
  call.name = "click" \/ (call.name = "keydown" /\ call.key \in {"Enter", " "})

\* C8: a click, an Enter key-down and a Space key-down each dispatch exactly
\* one podcast-select event (bubbling, composed) whose detail is the value
\* at that moment, also when the operation before was an activation too; a
\* key-down of another key dispatches nothing; Space has its default prevented.
C8_Step ==
  /\ IsActivation(previewCall') =>
       /\ Len(previewCall'.dispatched) = 1
       /\ previewCall'.dispatched[1].type = "podcast-select"
       /\ previewCall'.dispatched[1].bubbles /\ previewCall'.dispatched[1].composed
       /\ previewCall'.dispatched[1].detail = Value(attrs', _data')
       /\ previewCall'.streak = previewCall.streak + 1
  /\ (previewCall'.name = "keydown" /\ ~IsActivation(previewCall')) =>
       previewCall'.dispatched = <<>>
  /\ (previewCall'.name = "keydown" /\ previewCall'.key = " ") =>
       previewCall'.defaultPrevented

C8_OneEventPerActivation == [][C8_Step]_vars

\* a Space key-down right after another activation
C8_Witness ==
  /\ previewCall.name = "keydown" /\ previewCall.key = " " /\ previewCall.streak >= 2
  /\ Len(previewCall.dispatched) = 1 /\ previewCall.defaultPrevented
  /\ ~_data.isNull

\* the PodcastSummary shape: strings, a season count >= 0, genres a list of
\* numbers and strings
ValidStruct(obj) ==
  /\ ~obj.isNull
  /\ obj.id.t = "string" /\ obj.title.t = "string" /\ obj.image.t = "string"
  /\ obj.updated.t = "string" /\ obj.description.t = "string"
  /\ obj.seasons.t = "number" /\ obj.seasons.n >= 0
  /\ obj.genres.t = "array"
  /\ \A i \in 1..Len(obj.genres.a) : obj.genres.a[i].t \in {"number", "string"}

\* the view model repeats every field of obj
Reproduces(v, obj) ==
  /\ v.id = obj.id /\ v.title = obj.title /\ v.image = obj.image
  /\ v.genres = obj.genres /\ v.seasons = obj.seasons /\ v.updated = obj.updated
  /\ v.description = obj.description

\* a display name that the comma-separated attribute carries unchanged: not
\* empty, no comma, no blank at either end, and not a number to Number()
PlainName(x) ==
  /\ x # <<>>
  /\ \A i \in 1..Len(x) : x[i] # ","
  /\ x[1] # " " /\ x[Len(x)] # " "
  /\ ToNumber(JStr(x)).t = "nan"

PlainNames(obj) ==
  \A i \in 1..Len(obj.genres.a) : obj.genres.a[i].t = "string" => PlainName(obj.genres.a[i].s)

\* C9 (as stated): for every valid structured object, .data = obj and then
\* .value gives back every field of obj; and the description is empty
\* whenever no structured object is retained.
C9_RoundTrip ==
  /\ (previewCall.name = "setData" /\ ValidStruct(_data)) =>
       Reproduces(Value(attrs, _data), _data)
  /\ _data.isNull => Value(attrs, _data).description = JStr(<<>>)

\* C9 (amended): the same, for the valid objects whose display names are
\* plain (not empty, comma-free, no blank at either end, not numeric).
C9_RoundTripPlainNames ==
  /\ (previewCall.name = "setData" /\ ValidStruct(_data) /\ PlainNames(_data)) =>
       Reproduces(Value(attrs, _data), _data)
  /\ _data.isNull => Value(attrs, _data).description = JStr(<<>>)

\* a mixed list of an identifier and a name came back unchanged
C9_Witness ==
  /\ previewCall.name = "setData" /\ _data = DataMixed
  /\ Value(attrs, _data).genres = JArr(<<JNum(7), JStr(<<"History">>)>>)
  /\ Value(attrs, _data).seasons = JNum(0)

\* the field of obj that each declared key mirrors
FieldOf(obj, name) ==
  CASE name = "pid" -> obj.id
    [] name = "title" -> obj.title
    [] name = "image" -> obj.image
    [] name = "genres" -> obj.genres
    [] name = "seasons" -> obj.seasons
    [] OTHER -> obj.updated

\* the string form of a field, the empty string for a missing one
StringForm(v) == IF IsNullish(v) THEN <<>> ELSE JsString(v)

\* C10: after .data = obj with an object, each of the six declared keys is
\* present and holds the string form of obj's field, the empty string for a
\* missing field, whatever the key held before.
C10_DeclaredRewritten ==
  previewCall.name = "setData" =>
    \A name \in Observed :
      name \in DOMAIN attrs /\ attrs[name] = StringForm(FieldOf(_data, name))

\* an object with every field missing was assigned: six empty strings
C10_Witness ==
  /\ previewCall.name = "setData" /\ _data = DataEmpty
  /\ \A name \in Observed : name \in DOMAIN attrs /\ attrs[name] = <<>>

\* the value the view model is to hold for a string key: the declared value
\* when the key is present, else the field of the retained object, else ""
DeclaredFirst(name) ==
  IF name \in DOMAIN attrs THEN JStr(attrs[name])
  ELSE IF ~IsNullish(FieldOf(_data, name)) THEN FieldOf(_data, name)
  ELSE JStr(<<>>)

\* C11: getValue() returns, for every key, the declared value when the
\* declared key is present, else the field of the retained object, else the
\* empty default; so with the seasons key removed and an object with a
\* season count retained, seasons is that count. (A declared seasons value
\* that is not a number is the subject of C18 and is left open here.)
C11_DeclaredFirst ==
  LET v == Value(attrs, _data) IN
  /\ v.id = DeclaredFirst("pid")
  /\ v.title = DeclaredFirst("title")
  /\ v.image = DeclaredFirst("image")
  /\ v.updated = DeclaredFirst("updated")
  /\ "genres" \in DOMAIN attrs => v.genres.t = "array"
  /\ "genres" \notin DOMAIN attrs =>
       v.genres = (IF ~IsNullish(_data.genres) THEN _data.genres ELSE JArr(<<>>))
  /\ ("seasons" \in DOMAIN attrs /\ StrToNumber(attrs["seasons"]).t = "number") =>
       v.seasons = StrToNumber(attrs["seasons"])
  /\ "seasons" \notin DOMAIN attrs =>
       v.seasons = (IF ~IsNullish(_data.seasons) THEN _data.seasons ELSE JNum(0))

\* C12: no operation on the element raises an exception, the re-renders it
\* triggers included, whatever object was assigned to .data (null, fields
\* missing, genres a string).
C12_NeverThrows == previewCall.reported = 0

\* the operations that change the element's state from outside
IsMutation(call) ==
  call.name \in {"setData", "setDataNull", "setAttribute", "removeAttribute"}

\* "N season" for one season, "N seasons" for more
CountLabel(n) ==
  IF n = 1 THEN <<"1", " ", "season">> ELSE IntToStr(n) \o <<" ", "season", "s">>

\* the accessible label of a view model: the title alone for a season count
\* of 0, else the title, the dash and the season label; an element without
\* a title goes by its default name
LabelOf(v) ==
  LET t == IF v.title = JStr(<<>>) THEN <<"Podcast">> ELSE v.title.s
  IN IF v.seasons.n = 0 THEN t ELSE t \o <<" ", "-", " ">> \o CountLabel(v.seasons.n)

\* C13: after every change of the element's state (an attribute set or
\* removed, an object or null assigned to .data) the aria-label is the label
\* of the view model getValue() returns then, for a season count N >= 0.
C13_Step ==
  LET v == Value(attrs', _data') IN
  (IsMutation(previewCall') /\ <<attrs', _data'>> # <<attrs, _data>>
     /\ v.seasons.t = "number" /\ v.seasons.n >= 0) =>
    ("aria-label" \in DOMAIN attrs' /\ attrs'["aria-label"] = LabelOf(v))

C13_LabelCurrent == [][C13_Step]_vars

\* the operations that end with _syncAria() and _render() on the final state
Rerenders(call) ==
  call.name \in {"setData", "setAttribute", "removeAttribute", "connect"}

\* "" for 0, "1 season" for 1, "N seasons" for N >= 2
PluralLabel(n) == IF n = 0 THEN <<>> ELSE CountLabel(n)

\* the part of the aria-label after the title
LabelTail(n) == IF n = 0 THEN <<>> ELSE <<" ", "-", " ">> \o CountLabel(n)

\* the last k symbols of s
Suffix(s, k) == IF k > Len(s) THEN <<>> ELSE SubSeq(s, Len(s) - k + 1, Len(s))

TagsOf(list) ==
  IF list # <<>> /\ list[1].t = "number"
  THEN [i \in 1..Len(list) |-> GenreService_getNames(list)[i].s]
  ELSE [i \in 1..Len(list) |-> ScalarToString(list[i])]

\* C15: the rendered genre tags of the card are the names of the entire list
\* when the first token is numeric and the tokens unchanged otherwise, and
\* the dialog opened with the same view model shows the same tags.
C15_GenreTags ==
  LET v == Value(attrs, _data) IN
  (Rerenders(previewCall) /\ v.genres.t = "array") =>
     /\ dom.tags = TagsOf(v.genres.a)
     /\ updateContent(v, tzWest).genres = dom.tags

\* a mixed list with a number first (resolved as a whole) was rendered
C15_Witness ==
  /\ Rerenders(previewCall)
  /\ Value(attrs, _data).genres = JArr(<<JNum(3), JStr(<<"Comedy">>)>>)
  /\ dom.tags = << <<"History">>, UnknownGenre >>

\* C18: whenever the declared seasons value is not a number, getValue()
\* gives a season count of 0, whatever the retained object holds, and the
\* rendered season label is empty.
C18_NonNumericIsZero ==
  ("seasons" \in DOMAIN attrs /\ StrToNumber(attrs["seasons"]).t = "nan") =>
     /\ Value(attrs, _data).seasons = JNum(0)
     /\ Rerenders(previewCall) => dom.seasons = <<>>

\* the parts of the card the view model determines
Shown(card) == <<card.imgSrc, card.title, card.seasons, card.updated, card.tags>>

\* C19: after every change of the element's state (an attribute set or
\* removed, an object or null assigned to .data) the rendered image, title,
\* season label, update label and genre tags are those the view model of
\* that state renders to.
C19_Step ==
  (IsMutation(previewCall') /\ <<attrs', _data'>> # <<attrs, _data>>) =>
    Shown(dom') = Shown(Render(dom', Value(attrs', _data'), tzWest).dom)

C19_NeverStale == [][C19_Step]_vars

\* the six keys of the view model that have a declared key
ViewKey(v, name) ==
  CASE name = "pid" -> v.id
    [] name = "title" -> v.title
    [] name = "image" -> v.image
    [] name = "genres" -> v.genres
    [] name = "seasons" -> v.seasons
    [] OTHER -> v.updated

\* C22: .data = null leaves every declared key as it was, so getValue()
\* afterwards returns the same id, title, image, genres, seasons and updated
\* as before for every key whose declared value is present, and the empty
\* string for description.
C22_Step ==
  previewCall'.name = "setDataNull" =>
    /\ _data' = NoData
    /\ attrs' = attrs
    /\ \A name \in Observed \cap DOMAIN attrs :
         ViewKey(Value(attrs', _data'), name) = ViewKey(Value(attrs, _data), name)
    /\ Value(attrs', _data').description = JStr(<<>>)

C22_NullClearsOnly == [][C22_Step]_vars

====
